---- MODULE Spec2Model ----
(***************************************************************************)
(* Soil-liquefaction analysis service (Django application `liquefaction`). *)
(*                                                                         *)
(* The module models                                                       *)
(*   - the project row, the imported boreholes and soil layers, and the    *)
(*     stored AnalysisResult rows (models.py);                             *)
(*   - the views that start analysis runs (views.py: project_detail,       *)
(*     analyze, reanalyze) as concurrent requests, each holding its own    *)
(*     in-memory copy of the project row;                                  *)
(*   - LiquefactionAnalysisEngine (services/analysis_engine.py);           *)
(*   - the layer geometry and the LPI of the NCEER procedure               *)
(*     (liquefaction_backup/services/NCEER.py).                            *)
(*                                                                         *)
(* Real numbers are fixed-point integers with Scale units per 1.0.         *)
(***************************************************************************)
EXTENDS Integers, Sequences, FiniteSets, TLC

(***************************************************************************)
(* Bounds of the model                                                     *)
(***************************************************************************)
\* concurrent view invocations
MaxRequests == 2

\* analysis methods ticked in one request
MaxSel == 2

\* rows of an uploaded CSV file
MaxLayers == 2

\* uploads
MaxImports == 1

\* clock ticks counted since the project row was last saved
MaxTicks == 2

(***************************************************************************)
(* State                                                                   *)
(***************************************************************************)
VARIABLES
    project,        \* the AnalysisProject row: [status, analysis_method]
    time_diff,      \* minutes since the row was saved: timezone.now() - updated_at
    boreholes,      \* the BoreholeData rows of the project
    soil_layers,    \* the SoilLayer rows of the project
    results,        \* the AnalysisResult rows of the project
    import_result,  \* what the last import_csv_data returned: [success, warnings]
    imports,        \* number of uploads so far
    req,            \* the view invocations, each with its in-memory project and engine
    last_run,       \* history: the run that finished last and what was stored then
    idem,           \* history: comparison of the last finished run with its predecessor
    well,           \* NCEER: the layers of the well given to compute_coefficient
    coef,           \* NCEER: the rows compute_coefficient returned
    lpi,            \* NCEER: the LPI of each row
    arg,            \* the arguments of the function that is called on its own
    ret             \* what that function returned

vars == <<project, time_diff, boreholes, soil_layers, results, import_result,
          imports, req, last_run, idem, well, coef, lpi, arg, ret>>

dbVars == <<project, time_diff, boreholes, soil_layers, results, import_result, imports>>

nceerVars == <<well, coef, lpi>>

callVars == <<arg, ret>>

(***************************************************************************)
(* Fixed-point arithmetic                                                  *)
(***************************************************************************)
Scale == 100 * 100

Min(a, b) == IF a <= b THEN a ELSE b

Max(a, b) == IF a >= b THEN a ELSE b

\* floor(a * b / c) for a, b >= 0 and 0 < c <= 46340, without leaving the
\* 32-bit range as long as the result fits
MulDiv(a, b, c) ==
    LET q  == a \div c
        r  == a % c
        q2 == b \div c
        r2 == b % c
    IN  q * b + r * q2 + (r * r2) \div c

\* a * b for fixed-point a, b >= 0
Mul(a, b) == MulDiv(a, b, Scale)

\* a / b for fixed-point a >= 0, b > 0 (long division, two digits at a time)
Div(a, b) ==
    LET q  == a \div b
        r  == a % b
        d1 == (r * 100) \div b
        r1 == (r * 100) % b
        d2 == (r1 * 100) \div b
    IN  q * Scale + d1 * 100 + d2

\* x * num / den for a fixed-point x >= 0 and an exact rational num/den
Rat(x, num, den) == MulDiv(x, num, den)

\* round(x, n): x rounded to a multiple of unit (unit = Scale / 10^n),
\* ties to even as Python's round
RoundTo(x, unit) ==
    LET q == x \div unit
        r == x % unit
    IN  IF 2 * r > unit \/ (2 * r = unit /\ q % 2 = 1)
        THEN (q + 1) * unit
        ELSE q * unit

RECURSIVE IsqrtIter(_, _, _)
IsqrtIter(n, lo, hi) ==
    IF lo >= hi THEN lo
    ELSE LET mid == (lo + hi + 1) \div 2
         IN  IF mid * mid <= n THEN IsqrtIter(n, mid, hi)
             ELSE IsqrtIter(n, lo, mid - 1)

\* math.sqrt(x) for fixed-point 0 <= x < 21.47
Sqrt(x) == IsqrtIter(x * Scale, 0, 46340)

RECURSIVE ExpSeries(_, _, _, _)
ExpSeries(x, term, k, acc) ==
    IF term = 0 \/ k > 12 THEN acc
    ELSE LET t == Mul(term, x) \div k
         IN  ExpSeries(x, t, k + 1, acc + t)

RECURSIVE ExpPos(_)
\* math.exp(x) for fixed-point x >= 0: halve the argument until it is below
\* 0.5, sum the Taylor series, square back
ExpPos(x) ==
    IF 2 * x < Scale THEN ExpSeries(x, Scale, 1, Scale)
    ELSE LET h == ExpPos(x \div 2)
         IN  Mul(h, h)

\* math.exp(-x) for fixed-point x >= 0
ExpNeg(x) == Div(Scale, ExpPos(x))

Ln2 == Rat(Scale, 6931, 10000)

RECURSIVE AtanhSeries(_, _, _, _)
AtanhSeries(z2, pow, k, acc) ==
    IF pow = 0 \/ k > 15 THEN acc
    ELSE LET p == Mul(pow, z2)
         IN  AtanhSeries(z2, p, k + 2, acc + p \div k)

RECURSIVE Ln(_)
\* math.log(x) for fixed-point x >= 1: ln x = ln(x/2) + ln 2 down to [1, 2),
\* then 2 * atanh((x - 1) / (x + 1))
Ln(x) ==
    IF x >= 2 * Scale THEN Ln(x \div 2) + Ln2
    ELSE LET z == Div(x - Scale, x + Scale)
         IN  2 * AtanhSeries(Mul(z, z), z, 3, z)

\* x ** (num/den) for fixed-point x >= 1
Pow(x, num, den) == ExpPos(Rat(Ln(x), num, den))

\* x * num / den for small operands (x * num stays below 2^31)
Lin(x, num, den) == (x * num) \div den

(***************************************************************************)
(* Optional values: <<>> is Python's None, <<v>> a present value           *)
(***************************************************************************)
Nothing == <<>>

Some(v) == <<v>>

IsNone(x) == x = <<>>

\* Python truthiness of an optional number: None and 0 are false
Truthy(x) == x # <<>> /\ x[1] # 0

(***************************************************************************)
(* Project settings (models.py: AnalysisProject)                           *)
(***************************************************************************)
Methods == {"HBF", "NCEER", "AIJ", "JRA"}

Statuses == {"pending", "processing", "completed", "error"}

\* em_value of the modelled project: the field's default, in percent
em_value == 8 * 9

\* unit_weight_unit of the modelled project: the field's default
unit_weight_unit == "t/m3"

\* the HBF module is part of the repository, so its import succeeds
HBF_AVAILABLE == TRUE

(***************************************************************************)
(* LiquefactionAnalysisEngine: per-layer computation                       *)
(***************************************************************************)
\* USCS codes of the model are the two-letter group symbols, for which
\* uscs.startswith(t) is equality with t
_is_liquefiable_soil(method, layer) ==
    IF layer.uscs = "" THEN FALSE
    ELSE IF method = "HBF" THEN
        IF layer.uscs \in {"CH", "MH", "OH", "PT", "GW", "GP", "GM", "GC"} THEN FALSE
        ELSE IF layer.uscs \in {"SM", "SP", "SW", "SC", "ML", "CL"} THEN
            ~ (  ~IsNone(layer.fines_content) /\ layer.fines_content[1] > 35 * Scale
              /\ ~IsNone(layer.plastic_index) /\ layer.plastic_index[1] > 12 * Scale)
        ELSE FALSE
    ELSE IF method \in {"AIJ", "JRA"} THEN
        IF layer.uscs \in {"CH", "MH", "OH", "PT", "GW", "GP", "GM", "GC", "CL", "SC"} THEN FALSE
        ELSE IF layer.uscs \in {"SM", "SP", "SW", "ML"} THEN
            /\ ~ (~IsNone(layer.fines_content) /\ layer.fines_content[1] > 35 * Scale)
            /\ ~ (~IsNone(layer.plastic_index) /\ layer.plastic_index[1] > 15 * Scale)
        ELSE FALSE
    ELSE
        IF layer.uscs \in {"CH", "MH", "OH", "PT", "GW", "GP", "GM", "GC"} THEN FALSE
        ELSE IF layer.uscs \in {"SM", "SP", "SW", "SC", "ML", "CL"} THEN
            /\ ~ (~IsNone(layer.fines_content) /\ layer.fines_content[1] > 35 * Scale)
            /\ ~ (~IsNone(layer.plastic_index) /\ layer.plastic_index[1] > 18 * Scale)
        ELSE FALSE

_calculate_total_stress(layer, depth) ==
    LET raw == IF Truthy(layer.unit_weight) THEN layer.unit_weight[1]
               ELSE Lin(Scale, 18, 10)
        unit_weight == IF unit_weight_unit = "kN/m3" THEN Rat(raw, 100, 981) ELSE raw
    IN  Mul(unit_weight, depth)

_calculate_effective_stress(borehole, layer, depth) ==
    LET total_stress == _calculate_total_stress(layer, depth)
        effective_stress == IF depth > borehole.water_depth
                            THEN total_stress - (depth - borehole.water_depth)
                            ELSE total_stress
    IN  Max(Scale \div 10, effective_stress)

\* for spt_n >= 0
_calculate_n60(spt_n) == Rat(spt_n, em_value, 60)

\* min(1.7, sqrt(100 / sigma_v_prime)) is 1.7 exactly when the ratio is at
\* least 1.7^2 = 2.89
_calculate_n1_60(n60, sigma_v_prime) ==
    LET ratio == Div(100 * Scale, sigma_v_prime)
        cn == IF ratio >= Lin(Scale, 289, 100) THEN Lin(Scale, 17, 10)
              ELSE Sqrt(ratio)
    IN  Mul(n60, cn)

\* exp(1.63 + 9.7 / (fc + 0.01) - (15.7 / (fc + 0.01)) ** 2)
NceerDeltaN(fc) ==
    LET d == fc + Scale \div 100
        a == Div(Lin(Scale, 97, 10), d)
        b == Div(Lin(Scale, 157, 10), d)
        e == Lin(Scale, 163, 100) + a - Mul(b, b)
    IN  IF e >= 0 THEN ExpPos(e) ELSE ExpNeg(-e)

_calculate_n1_60cs(method, n1_60, layer) ==
    IF IsNone(layer.fines_content) THEN n1_60
    ELSE LET fc == layer.fines_content[1] IN
        IF method = "HBF" THEN
            n1_60 + (IF fc <= 5 * Scale THEN 0
                     ELSE IF fc <= 15 * Scale THEN Lin(fc - 5 * Scale, 2, 10)
                     ELSE IF fc <= 35 * Scale THEN 2 * Scale + Lin(fc - 15 * Scale, 3, 20)
                     ELSE 5 * Scale)
        ELSE IF method = "AIJ" THEN
            IF fc > 10 * Scale THEN n1_60 + Min(Lin(fc - 10 * Scale, 3, 40), 3 * Scale)
            ELSE n1_60
        ELSE IF method = "JRA" THEN
            IF fc > 15 * Scale THEN n1_60 + Min(Lin(fc - 15 * Scale, 25, 200), Lin(Scale, 25, 10))
            ELSE n1_60
        ELSE
            n1_60 + (IF fc <= 5 * Scale THEN 0
                     ELSE IF fc <= 35 * Scale THEN NceerDeltaN(fc)
                     ELSE 5 * Scale)

_calculate_crr_7_5(method, n1_60cs) ==
    LET crr ==
        IF method = "HBF" THEN
            IF n1_60cs < 2 * Scale THEN 0
            ELSE IF n1_60cs <= 30 * Scale
            THEN Min(Rat(Rat(Pow(n1_60cs + Scale, 232, 100), 104, 10000), 1, 1000),
                     Scale \div 4)
            ELSE Scale \div 4
        ELSE IF method = "AIJ" THEN
            IF n1_60cs < 4 * Scale THEN 0
            ELSE IF n1_60cs <= 14 * Scale
            THEN Rat(Sqrt(Rat(n1_60cs, 10, 17)), 882, 10000)
            ELSE Rat(Sqrt(Rat(14 * Scale, 10, 17)), 882, 10000)
        ELSE IF method = "JRA" THEN
            IF n1_60cs < 4 * Scale THEN 0
            ELSE IF n1_60cs <= 14 * Scale
            THEN Rat(Sqrt(Rat(n1_60cs, 10, 17)), 882, 10000)
            ELSE Scale \div 4
        ELSE
            IF n1_60cs < 2 * Scale THEN 0
            ELSE IF n1_60cs <= 30 * Scale
            THEN Div(Scale, 34 * Scale - n1_60cs) + Rat(n1_60cs, 1, 135) - Scale \div 200
            ELSE Scale \div 4
    IN  Max(Scale \div 100, crr)

Scenarios == {"design", "mid", "max"}

\* math.exp lives on mw < 7.5 only; mw >= 0
_calculate_earthquake_scenario(borehole, depth, sigma_v_prime, crr_7_5, scenario) ==
    LET mw == IF scenario = "design"
              THEN IF Truthy(borehole.base_mw) THEN borehole.base_mw[1] ELSE Lin(Scale, 65, 10)
              ELSE IF scenario = "mid"
              THEN IF Truthy(borehole.base_mw) THEN borehole.base_mw[1] - Scale \div 2
                   ELSE 6 * Scale
              ELSE IF Truthy(borehole.base_mw) THEN borehole.base_mw[1] + Scale \div 2
                   ELSE 7 * Scale
        sd_s == IF scenario = "design"
                THEN IF Truthy(borehole.sds) THEN borehole.sds[1] ELSE Lin(Scale, 6, 10)
                ELSE IF scenario = "mid"
                THEN IF Truthy(borehole.sds) THEN Lin(borehole.sds[1], 7, 10)
                     ELSE Lin(Scale, 42, 100)
                ELSE IF Truthy(borehole.sds) THEN Lin(borehole.sds[1], 13, 10)
                     ELSE Lin(Scale, 78, 100)
        sm_s == IF scenario = "design"
                THEN IF Truthy(borehole.sms) THEN borehole.sms[1] ELSE Scale
                ELSE IF scenario = "mid"
                THEN IF Truthy(borehole.sms) THEN Lin(borehole.sms[1], 7, 10)
                     ELSE Lin(Scale, 7, 10)
                ELSE IF Truthy(borehole.sms) THEN Lin(borehole.sms[1], 13, 10)
                     ELSE Lin(Scale, 13, 10)
        a_value == Rat(sd_s, 250, 981)
        msf == IF mw < Lin(Scale, 75, 10)
               THEN Lin(ExpNeg(mw \div 4), 69, 10) - Lin(Scale, 58, 1000)
               ELSE Lin(Scale, 84, 100)
        rd0 == IF depth <= Lin(Scale, 915, 100)
               THEN Scale - Lin(depth, 765, 100000)
               ELSE IF depth <= 23 * Scale
               THEN Lin(Scale, 1174, 1000) - Lin(depth, 267, 10000)
               ELSE Lin(Scale, 744, 1000) - Lin(depth, 8, 1000)
        rd == Max(Scale \div 10, rd0)
        \* a_value * sigma_v_prime / sigma_v_prime is a_value
        csr == Mul(Lin(a_value, 65, 100), rd)
        crr == Mul(crr_7_5, msf)
        fs == IF csr > 0 THEN Div(crr, csr) ELSE 999 * Scale
        lpi_contribution == IF depth <= 20 * Scale /\ fs < Scale
                            THEN Mul(Scale - fs, 10 * Scale - depth \div 2)
                            ELSE 0
    IN  [ mw      |-> RoundTo(mw, Scale \div 10),
          a_value |-> RoundTo(a_value, Scale \div 1000),
          sd_s    |-> RoundTo(sd_s, Scale \div 1000),
          sm_s    |-> RoundTo(sm_s, Scale \div 1000),
          msf     |-> RoundTo(msf, Scale \div 1000),
          rd      |-> RoundTo(rd, Scale \div 1000),
          csr     |-> RoundTo(csr, Scale \div 1000),
          crr     |-> RoundTo(crr, Scale \div 1000),
          fs      |-> RoundTo(fs, Scale \div 100),
          lpi     |-> RoundTo(lpi_contribution, Scale \div 100) ]

\* an analysis depth that drifts with the time since the project was saved
AnalysisDepthByClock(layer) ==
    (layer.top_depth + layer.bottom_depth) \div 2 + time_diff * (Scale \div 100)

\* analysis_depth of _analyze_soil_layer: the middle of the layer
AnalysisDepth(layer) == (layer.top_depth + layer.bottom_depth) \div 2

\* The field values of the AnalysisResult that _analyze_soil_layer creates for
\* a liquefiable layer with spt_n >= 0 (vs is not modelled)
LayerValues(method, borehole, layer) ==
    LET analysis_depth == AnalysisDepth(layer)
        sigma_v == _calculate_total_stress(layer, analysis_depth)
        sigma_v_prime == _calculate_effective_stress(borehole, layer, analysis_depth)
        n60 == _calculate_n60(layer.spt_n[1])
        n1_60 == _calculate_n1_60(n60, sigma_v_prime)
        n1_60cs == _calculate_n1_60cs(method, n1_60, layer)
        crr_7_5 == _calculate_crr_7_5(method, n1_60cs)
    IN  [ analysis_depth |-> analysis_depth,
          sigma_v  |-> sigma_v,
          sigma_v_csr |-> sigma_v_prime,
          n1_60cs  |-> n1_60cs,
          crr_7_5  |-> crr_7_5,
          design   |-> _calculate_earthquake_scenario(borehole, analysis_depth,
                           sigma_v_prime, crr_7_5, "design"),
          mid      |-> _calculate_earthquake_scenario(borehole, analysis_depth,
                           sigma_v_prime, crr_7_5, "mid"),
          max      |-> _calculate_earthquake_scenario(borehole, analysis_depth,
                           sigma_v_prime, crr_7_5, "max") ]

\* What _analyze_soil_layer does with a layer short of the database write:
\*   "skip"  the layer is screened out (returns None)
\*   "warn"  spt_n is missing: a warning is appended (returns None)
\*   "raise" n1_60 < 0, so n1_60 ** 0.302 is complex and round() raises
\*   "row"   a result is computed
\* n1_60 = spt_n * (em_value / 60) * cn has the sign of spt_n
LayerOutcome(method, layer) ==
    IF ~ _is_liquefiable_soil(method, layer) THEN "skip"
    ELSE IF IsNone(layer.spt_n) THEN "warn"
    ELSE IF layer.spt_n[1] < 0 THEN "raise"
    ELSE "row"

Requests == 1 .. MaxRequests

LayerSlots == 1 .. MaxLayers

BoreholeIds == {1, 2}

(***************************************************************************)
(* Uploaded data                                                           *)
(***************************************************************************)
\* The CSV files of the model: row s, when present, is a layer of borehole
\* SlotBorehole(s); the rows of a borehole are stacked 1.5 m each. The file
\* without a row is a file of which no row could be parsed: parse_csv
\* succeeds with no borehole and no layer.
\* Borehole 1 lies inside the bounds of the seismic lookup, borehole 2 outside.
LayerKinds == {"sand", "clay", "nospt", "negspt"}

CsvFiles == [LayerSlots -> LayerKinds \cup {"none"}]

SlotBorehole(s) == ((s - 1) % 2) + 1

SlotTop(s) == ((s - 1) \div 2) * Lin(Scale, 3, 2)

twd97_x(b) == IF b = 1 THEN 250000 ELSE 100000

twd97_y(b) == 2600000

csv_water_depth(b) == IF b = 1 THEN 2 * Scale ELSE 0

\* the fields csv_parser reads from a row of each kind
CsvLayer(kind) ==
    IF kind = "sand" THEN
        [uscs |-> "SM", spt_n |-> Some(10 * Scale), fines_content |-> Some(20 * Scale),
         plastic_index |-> Nothing, unit_weight |-> Some(Lin(Scale, 19, 10))]
    ELSE IF kind = "clay" THEN
        [uscs |-> "CL", spt_n |-> Some(3 * Scale), fines_content |-> Some(30 * Scale),
         plastic_index |-> Some(10 * Scale), unit_weight |-> Nothing]
    ELSE IF kind = "nospt" THEN
        [uscs |-> "SP", spt_n |-> Nothing, fines_content |-> Nothing,
         plastic_index |-> Nothing, unit_weight |-> Nothing]
    ELSE
        [uscs |-> "SM", spt_n |-> Some(0 - 5 * Scale), fines_content |-> Nothing,
         plastic_index |-> Nothing, unit_weight |-> Some(Lin(Scale, 19, 10))]

(***************************************************************************)
(* SeismicParameterService.query_seismic_parameters                        *)
(***************************************************************************)
\* Outside the bounding box the query fails. Inside it the parameters come
\* from the data files of the service; the model's inside coordinate has the
\* values below.
query_seismic_parameters(x, y) ==
    IF ~ (160000 <= x /\ x <= 380000 /\ 2420000 <= y /\ y <= 2800000)
    THEN [success |-> FALSE]
    ELSE [success |-> TRUE,
          sds |-> Lin(Scale, 8, 10), sms |-> Scale, base_mw |-> Lin(Scale, 73, 10)]

(***************************************************************************)
(* DataImportService.import_csv_data                                       *)
(***************************************************************************)
\* the BoreholeData row _import_to_database creates for borehole b
ImportedBorehole(b) ==
    LET seismic_result == query_seismic_parameters(twd97_x(b), twd97_y(b))
    IN  [ borehole_id |-> b,
          twd97_x     |-> twd97_x(b),
          twd97_y     |-> twd97_y(b),
          water_depth |-> csv_water_depth(b),
          sds     |-> IF seismic_result.success THEN Some(seismic_result.sds) ELSE Nothing,
          sms     |-> IF seismic_result.success THEN Some(seismic_result.sms) ELSE Nothing,
          base_mw |-> IF seismic_result.success THEN Some(seismic_result.base_mw) ELSE Nothing ]

\* the SoilLayer row _import_to_database creates for row s of the file
ImportedLayer(csv, s) ==
    LET d == CsvLayer(csv[s])
    IN  [ id            |-> s,
          borehole_id   |-> SlotBorehole(s),
          top_depth     |-> SlotTop(s),
          bottom_depth  |-> SlotTop(s) + Lin(Scale, 3, 2),
          uscs          |-> d.uscs,
          spt_n         |-> d.spt_n,
          fines_content |-> d.fines_content,
          plastic_index |-> d.plastic_index,
          unit_weight   |-> d.unit_weight ]

\* history record of a finished run
NoRun == [method |-> "", stored |-> {}, solo |-> FALSE]

Quiet == \A r \in Requests : req[r].pc \in {"idle", "done"}

\* An upload between requests: the old boreholes go (layers and results
\* cascade) and the file's boreholes and layers are created. With a borehole
\* and a layer imported the project is saved as pending. Without, the
\* function raises, catches and returns the failure inside its atomic block,
\* which commits what was done, and the project is saved as error; such an
\* upload is the last one of the model.
import_csv_data(csv) ==
    /\ Quiet
    /\ LET rows == {t \in LayerSlots : csv[t] # "none"}
           imported_boreholes == { ImportedBorehole(SlotBorehole(s)) : s \in rows }
           imported_layers == { ImportedLayer(csv, s) : s \in rows }
           success == imported_boreholes # {} /\ imported_layers # {}
       IN  /\ IF success THEN imports < MaxImports ELSE imports <= MaxImports
           /\ boreholes' = imported_boreholes
           /\ soil_layers' = imported_layers
           /\ results' = {}
           /\ import_result' = [success |-> success, warnings |-> {}]
           /\ project' = [project EXCEPT !.status = IF success THEN "pending" ELSE "error"]
           /\ imports' = IF success THEN imports + 1 ELSE MaxImports + 1
    /\ time_diff' = 0
    /\ last_run' = NoRun
    /\ idem' = "na"
    /\ UNCHANGED <<req, nceerVars, callVars>>

(***************************************************************************)
(* Clock                                                                   *)
(***************************************************************************)
TickMinutes == 2 * 5

\* The clock is read by analyze alone, and only for a project that is
\* processing: other ticks change nothing that is observed and are left out
Tick ==
    /\ project.status = "processing"
    /\ \E r \in Requests : req[r].pc = "idle"
    /\ time_diff < MaxTicks * TickMinutes
    /\ time_diff' = time_diff + TickMinutes
    /\ UNCHANGED <<project, boreholes, soil_layers, results, import_result, imports,
                   req, last_run, idem, nceerVars, callVars>>

(***************************************************************************)
(* View invocations                                                        *)
(***************************************************************************)
Range(f) == { f[i] : i \in DOMAIN f }

\* the methods ticked in the model's requests
TickedMethods == {"HBF", "NCEER", "AIJ"}

\* the position of a method's checkbox in the form
MethodOrder(m) == IF m = "HBF" THEN 1 ELSE IF m = "NCEER" THEN 2 ELSE IF m = "AIJ" THEN 3 ELSE 4

\* request.POST.getlist('analysis_methods'): the ticked methods in the order
\* of the form, at least one
SelChoices ==
    { sel \in UNION { [1 .. n -> TickedMethods] : n \in 1 .. MaxSel } :
        \A i, j \in DOMAIN sel : i < j => MethodOrder(sel[i]) < MethodOrder(sel[j]) }

NoEngine == [analysis_method |-> "", todo |-> <<>>, results |-> {}, errors |-> {},
             warnings |-> {}, solo |-> FALSE]

\* LiquefactionAnalysisEngine.__init__(project)
NewEngine(row) == [NoEngine EXCEPT !.analysis_method = row.analysis_method]

NoResult == [success |-> FALSE, has_error |-> FALSE]

IdleRequest ==
    [ view |-> "", pc |-> "idle", selected_methods |-> <<>>, i |-> 0,
      project |-> [status |-> "", analysis_method |-> ""], original_method |-> "",
      engine |-> NoEngine, analysis_result |-> NoResult, total_success |-> 0,
      outcome |-> "" ]

\* the invocation has returned its response
Done(view, outcome) == [IdleRequest EXCEPT !.view = view, !.pc = "done", !.outcome = outcome]

\* run_analysis has set the project processing and has not returned yet
RunPcs == {"dispatch", "layers", "hbf_save", "hbf_finish", "raise"}

Running(r) == req[r].pc \in RunPcs

\* The invocations are interchangeable: they are numbered in the order in
\* which they arrive
Arrives(r) == req[r].pc = "idle" /\ \A q \in Requests : q < r => req[q].pc # "idle"

\* a project as project_create leaves it, and no request yet
NewProject ==
    /\ project = [status |-> "pending", analysis_method |-> "HBF"]
    /\ time_diff = 0
    /\ boreholes = {}
    /\ soil_layers = {}
    /\ results = {}
    /\ import_result = [success |-> FALSE, warnings |-> {}]
    /\ imports = 0
    /\ req = [r \in Requests |-> IdleRequest]
    /\ last_run = NoRun
    /\ idem = "na"

\* no function is called on its own
NoCall ==
    /\ arg = Nothing
    /\ ret = Nothing

\* no well is being computed
NoWell ==
    /\ well = [layers |-> <<>>, water_depth |-> 0]
    /\ coef = Nothing
    /\ lpi = Nothing

Init ==
    /\ NewProject
    /\ NoWell
    /\ NoCall

\* POST to project_detail: the quick analysis
project_detail(r, sel) ==
    /\ Arrives(r)
    /\ req' = [req EXCEPT ![r] =
                 IF boreholes = {} THEN Done("project_detail", "no_data")
                 ELSE [IdleRequest EXCEPT !.view = "project_detail", !.pc = "loop",
                                          !.selected_methods = sel, !.i = 1,
                                          !.project = project]]
    /\ UNCHANGED <<dbVars, last_run, idem, nceerVars, callVars>>

\* project_detail, top of the loop: the method is written to the project and
\* an engine is built for it
DetailSetMethod(r) ==
    /\ req[r].pc = "loop"
    /\ LET method == req[r].selected_methods[req[r].i]
           row == [req[r].project EXCEPT !.analysis_method = method]
       IN  /\ req' = [req EXCEPT ![r] = [@ EXCEPT !.original_method = req[r].project.analysis_method,
                                                   !.project = row,
                                                   !.engine = NewEngine(row),
                                                   !.pc = "start"]]
           /\ project' = row
           /\ time_diff' = 0
    /\ UNCHANGED <<boreholes, soil_layers, results, import_result, imports,
                   last_run, idem, nceerVars, callVars>>

(***************************************************************************)
(* LiquefactionAnalysisEngine.run_analysis                                 *)
(***************************************************************************)
\* run_analysis, first statements: status processing, save. The run is alone
\* (solo) as long as no other run is in flight between its start and its end.
run_analysis(r) ==
    /\ req[r].pc = "start"
    /\ LET row == [req[r].project EXCEPT !.status = "processing"]
           alone == \A q \in Requests \ {r} : ~ Running(q)
       IN  /\ req' = [q \in Requests |->
                        IF q = r
                        THEN [req[r] EXCEPT !.project = row, !.pc = "dispatch",
                                            !.engine.solo = alone]
                        ELSE IF Running(q) THEN [req[q] EXCEPT !.engine.solo = FALSE]
                        ELSE req[q]]
           /\ project' = row
           /\ time_diff' = 0
    /\ UNCHANGED <<boreholes, soil_layers, results, import_result, imports,
                   last_run, idem, nceerVars, callVars>>

UsesHbf(r) == req[r].engine.analysis_method = "HBF" /\ HBF_AVAILABLE

LayerRow(id) == CHOOSE l \in soil_layers : l.id = id

BoreholeRow(b) == CHOOSE h \in boreholes : h.borehole_id = b

RECURSIVE OrderLayers(_)
\* the layers in the order the engine visits them: borehole by borehole,
\* each borehole's layers by top_depth
OrderLayers(ls) ==
    IF ls = {} THEN <<>>
    ELSE LET first == CHOOSE l \in ls : \A m \in ls :
                          \/ l.borehole_id < m.borehole_id
                          \/ l.borehole_id = m.borehole_id /\ l.top_depth <= m.top_depth
         IN  <<first.id>> \o OrderLayers(ls \ {first})

\* the (layer, values) pairs stored for the project
Stored(rows) == { <<row.soil_layer, row.values>> : row \in rows }

\* history: a run of method m ends with the rows `after` stored
EndOfRun(r, after) ==
    LET cur == [method |-> req[r].engine.analysis_method, stored |-> Stored(after),
                solo |-> req[r].engine.solo]
    IN  /\ last_run' = cur
        /\ idem' = IF cur.solo /\ last_run.solo /\ last_run.method = cur.method
                   THEN IF cur.stored = last_run.stored THEN "same" ELSE "diff"
                   ELSE "na"

\* a loop that a raising layer ends
AfterLayerErrorAbort(todo) == <<>>

\* the loop of _run_builtin_analysis after a layer has raised: the error is
\* recorded and the loop goes on with the next layer
AfterLayerError(todo) == Tail(todo)

\* _run_builtin_analysis up to the layer loop: without boreholes it raises,
\* otherwise every stored result of the project is deleted
_run_builtin_begin(r) ==
    /\ req[r].pc = "dispatch"
    /\ ~ UsesHbf(r)
    /\ IF boreholes = {}
       THEN /\ req' = [req EXCEPT ![r].pc = "raise"]
            /\ UNCHANGED results
       ELSE /\ results' = {}
            /\ req' = [req EXCEPT ![r] = [@ EXCEPT
                         !.pc = "layers",
                         !.engine.todo = OrderLayers(soil_layers),
                         !.engine.warnings =
                             { [kind |-> "no_layers", borehole_id |-> h.borehole_id, layer |-> 0] :
                                 h \in { g \in boreholes :
                                     ~ \E l \in soil_layers : l.borehole_id = g.borehole_id } }]]
    /\ UNCHANGED <<project, time_diff, boreholes, soil_layers, import_result, imports,
                   last_run, idem, nceerVars, callVars>>

\* the AnalysisResult row _analyze_soil_layer creates: analysis_method is not
\* passed to create(), the column keeps the empty string; `by` records the
\* method of the engine that created the row
NewResult(method, layer) ==
    [ soil_layer      |-> layer.id,
      analysis_method |-> "",
      by              |-> method,
      values          |-> LayerValues(method, BoreholeRow(layer.borehole_id), layer) ]

\* rows that never stand in the way of a new row
RowTakenNever(rows, layer) == FALSE

\* AnalysisResult.soil_layer is a OneToOneField: a layer that has a row
\* cannot get another one
RowTaken(rows, layer) == \E row \in rows : row.soil_layer = layer.id

\* one iteration of the layer loop: _analyze_soil_layer in its try/except.
\* soil_layer is a OneToOneField, so create() raises IntegrityError when the
\* layer already has a row.
_analyze_soil_layer(r) ==
    /\ req[r].pc = "layers"
    /\ req[r].engine.todo # <<>>
    /\ LET e == req[r].engine
           layer == LayerRow(Head(e.todo))
           outcome == LayerOutcome(e.analysis_method, layer)
           taken == RowTaken(results, layer)
       IN  IF outcome = "skip"
           THEN /\ req' = [req EXCEPT ![r].engine.todo = Tail(e.todo)]
                /\ UNCHANGED results
           ELSE IF outcome = "warn"
           THEN /\ req' = [req EXCEPT ![r].engine = [e EXCEPT
                             !.todo = Tail(e.todo),
                             !.warnings = @ \cup {[kind |-> "no_spt", borehole_id |-> layer.borehole_id,
                                                     layer |-> layer.id]}]]
                /\ UNCHANGED results
           ELSE IF outcome = "raise" \/ taken
           THEN /\ req' = [req EXCEPT ![r].engine = [e EXCEPT
                             !.todo = AfterLayerError(e.todo),
                             !.errors = @ \cup {layer.id}]]
                /\ UNCHANGED results
           ELSE /\ results' = results \cup {NewResult(e.analysis_method, layer)}
                /\ req' = [req EXCEPT ![r].engine = [e EXCEPT
                             !.todo = Tail(e.todo),
                             !.results = @ \cup {layer.id}]]
    /\ UNCHANGED <<project, time_diff, boreholes, soil_layers, import_result, imports,
                   last_run, idem, nceerVars, callVars>>

\* a status that stays as it is when a layer has failed
BuiltinStatusKept(errors) == IF errors # {} THEN "processing" ELSE "completed"

\* the status and the result _run_builtin_analysis ends with
BuiltinStatus(errors) == IF errors # {} THEN "error" ELSE "completed"

BuiltinSuccess(errors) == errors = {}

_run_builtin_finish(r) ==
    /\ req[r].pc = "layers"
    /\ req[r].engine.todo = <<>>
    /\ LET row == [req[r].project EXCEPT !.status = BuiltinStatus(req[r].engine.errors)]
       IN  /\ req' = [req EXCEPT ![r] = [@ EXCEPT
                        !.project = row,
                        !.analysis_result = [success |-> BuiltinSuccess(req[r].engine.errors),
                                             has_error |-> FALSE],
                        !.pc = "return"]]
           /\ project' = row
           /\ time_diff' = 0
    /\ EndOfRun(r, results)
    /\ UNCHANGED <<boreholes, soil_layers, results, import_result, imports, nceerVars, callVars>>

\* HBF.HBF_main on the dataframe of the project's layers: a result row for
\* every layer that has a blow count
HBF_main(df) == { id \in df : ~ IsNone(LayerRow(id).spt_n) }

\* the values of a row saved from the HBF dataframe
HbfValues(id) == [source |-> "HBF_main", layer |-> id]

\* _run_hbf_analysis up to the save: dataframe, HBF_main, the two raises
_run_hbf_analysis(r) ==
    /\ req[r].pc = "dispatch"
    /\ UsesHbf(r)
    /\ LET df == { l.id : l \in soil_layers }
           results_df == HBF_main(df)
       IN  req' = [req EXCEPT ![r] =
                     IF df = {} \/ results_df = {}
                     THEN [@ EXCEPT !.pc = "raise"]
                     ELSE [@ EXCEPT !.pc = "hbf_save",
                                    !.engine.todo = OrderLayers({l \in soil_layers : l.id \in results_df})]]
    /\ UNCHANGED <<dbVars, last_run, idem, nceerVars, callVars>>

\* _save_hbf_results_to_database: in one transaction every stored result of
\* the project is deleted and a row is created per dataframe row
_save_hbf_results_to_database(r) ==
    /\ req[r].pc = "hbf_save"
    /\ LET ids == Range(req[r].engine.todo)
       IN  /\ results' = { [soil_layer |-> id, analysis_method |-> "", by |-> "HBF",
                            values |-> HbfValues(id)] : id \in ids }
           /\ req' = [req EXCEPT ![r] = [@ EXCEPT !.pc = "hbf_finish",
                                                  !.engine.todo = <<>>,
                                                  !.engine.results = ids]]
    /\ UNCHANGED <<project, time_diff, boreholes, soil_layers, import_result, imports,
                   last_run, idem, nceerVars, callVars>>

\* _run_hbf_analysis after the save: completed, success
_run_hbf_finish(r) ==
    /\ req[r].pc = "hbf_finish"
    /\ LET row == [req[r].project EXCEPT !.status = "completed"]
       IN  /\ req' = [req EXCEPT ![r] = [@ EXCEPT
                        !.project = row,
                        !.analysis_result = [success |-> TRUE, has_error |-> FALSE],
                        !.pc = "return"]]
           /\ project' = row
           /\ time_diff' = 0
    /\ EndOfRun(r, results)
    /\ UNCHANGED <<boreholes, soil_layers, results, import_result, imports, nceerVars, callVars>>

\* run_analysis, except branch: status error, the result carries 'error'
run_analysis_except(r) ==
    /\ req[r].pc = "raise"
    /\ LET row == [req[r].project EXCEPT !.status = "error"]
       IN  /\ req' = [req EXCEPT ![r] = [@ EXCEPT
                        !.project = row,
                        !.analysis_result = [success |-> FALSE, has_error |-> TRUE],
                        !.pc = "return"]]
           /\ project' = row
           /\ time_diff' = 0
    /\ EndOfRun(r, results)
    /\ UNCHANGED <<boreholes, soil_layers, results, import_result, imports, nceerVars, callVars>>

(***************************************************************************)
(* views.py: the rest of project_detail, analyze, reanalyze                *)
(***************************************************************************)
\* project_detail after run_analysis returned. A failed result is read with
\* analysis_result["error"]: the builtin result has no such key, the KeyError
\* lands in the view's except branch (status error, response).
DetailAfterRun(r) ==
    /\ req[r].pc = "return"
    /\ LET q == req[r]
           res == q.analysis_result
           restored == [q.project EXCEPT !.analysis_method = q.original_method]
           failed == [q.project EXCEPT !.status = "error"]
       IN  IF res.success \/ res.has_error
           THEN /\ req' = [req EXCEPT ![r] = [q EXCEPT
                             !.total_success = IF res.success THEN @ + 1 ELSE @,
                             !.project = restored,
                             !.engine = NoEngine,
                             !.analysis_result = NoResult,
                             !.i = @ + 1,
                             !.pc = IF q.i < Len(q.selected_methods) THEN "loop" ELSE "final"]]
                /\ project' = restored
           ELSE /\ req' = [req EXCEPT ![r] = Done("project_detail", "exception")]
                /\ project' = failed
    /\ time_diff' = 0
    /\ UNCHANGED <<boreholes, soil_layers, results, import_result, imports,
                   last_run, idem, nceerVars, callVars>>

\* project_detail after the loop
DetailFinal(r) ==
    /\ req[r].pc = "final"
    /\ LET status == IF req[r].total_success > 0 THEN "completed" ELSE "error"
       IN  /\ project' = [req[r].project EXCEPT !.status = status]
           /\ req' = [req EXCEPT ![r] = Done("project_detail", status)]
    /\ time_diff' = 0
    /\ UNCHANGED <<boreholes, soil_layers, results, import_result, imports,
                   last_run, idem, nceerVars, callVars>>

StaleMinutes == 10

\* analyze, the check of the project status: a project that has been
\* processing for more than ten minutes is reset to pending
AnalyzeRefuses(row, diff) == row.status = "processing" /\ ~ (diff > StaleMinutes)

\* a check that resets every processing project
AnalyzeGuardRowReset(row, diff) ==
    IF row.status = "processing" THEN [row EXCEPT !.status = "pending"] ELSE row

\* the project row as the check leaves it
AnalyzeGuardRow(row, diff) ==
    IF row.status = "processing" /\ diff > StaleMinutes
    THEN [row EXCEPT !.status = "pending"]
    ELSE row

\* POST to analyze, up to the status check; the row is saved when the check
\* changed it
analyze(r, sel) ==
    /\ Arrives(r)
    /\ LET row == AnalyzeGuardRow(project, time_diff)
       IN  /\ req' = [req EXCEPT ![r] =
                        IF AnalyzeRefuses(project, time_diff)
                        THEN Done("analyze", "refused")
                        ELSE [IdleRequest EXCEPT !.view = "analyze", !.pc = "an_check",
                                                 !.project = row]]
           /\ project' = row
           /\ time_diff' = IF row # project THEN 0 ELSE time_diff
    /\ UNCHANGED <<boreholes, soil_layers, results, import_result, imports,
                   last_run, idem, nceerVars, callVars>>

\* analyze after the status check: without data it returns; with data the
\* engine is constructed with the keyword analysis_method, which __init__
\* does not take, and the TypeError lands in the except branch
AnalyzeCheck(r) ==
    /\ req[r].pc = "an_check"
    /\ IF boreholes = {} \/ soil_layers = {}
       THEN /\ req' = [req EXCEPT ![r] = Done("analyze", "no_data")]
            /\ UNCHANGED <<project, time_diff>>
       ELSE /\ req' = [req EXCEPT ![r] = Done("analyze", "exception")]
            /\ project' = [req[r].project EXCEPT !.status = "error"]
            /\ time_diff' = 0
    /\ UNCHANGED <<boreholes, soil_layers, results, import_result, imports,
                   last_run, idem, nceerVars, callVars>>

\* POST to reanalyze, up to the data checks
reanalyze(r, sel) ==
    /\ Arrives(r)
    /\ req' = [req EXCEPT ![r] =
                 IF project.status = "processing" THEN Done("reanalyze", "refused")
                 ELSE IF boreholes = {} \/ soil_layers = {} THEN Done("reanalyze", "no_data")
                 ELSE [IdleRequest EXCEPT !.view = "reanalyze", !.pc = "re_delete",
                                          !.selected_methods = sel, !.project = project]]
    /\ UNCHANGED <<dbVars, last_run, idem, nceerVars, callVars>>

\* reanalyze: the rows whose analysis_method column is a ticked method are
\* deleted, the project is saved
ReanalyzeDelete(r) ==
    /\ req[r].pc = "re_delete"
    /\ results' = { row \in results : row.analysis_method \notin Range(req[r].selected_methods) }
    /\ project' = req[r].project
    /\ time_diff' = 0
    /\ req' = [req EXCEPT ![r] = [@ EXCEPT !.pc = "re_run", !.selected_methods = <<>>]]
    /\ last_run' = IF results' # results THEN NoRun ELSE last_run
    /\ UNCHANGED <<boreholes, soil_layers, import_result, imports, idem, nceerVars, callVars>>

\* reanalyze: the engine constructor raises TypeError as in analyze
ReanalyzeRun(r) ==
    /\ req[r].pc = "re_run"
    /\ req' = [req EXCEPT ![r] = Done("reanalyze", "exception")]
    /\ project' = [req[r].project EXCEPT !.status = "error"]
    /\ time_diff' = 0
    /\ UNCHANGED <<boreholes, soil_layers, results, import_result, imports,
                   last_run, idem, nceerVars, callVars>>

Next ==
    \/ \E csv \in CsvFiles : import_csv_data(csv)
    \/ Tick
    \/ \E r \in Requests, sel \in SelChoices : project_detail(r, sel)
    \/ \E r \in Requests : DetailSetMethod(r)
    \/ \E r \in Requests : run_analysis(r)
    \/ \E r \in Requests : _run_builtin_begin(r)
    \/ \E r \in Requests : _analyze_soil_layer(r)
    \/ \E r \in Requests : _run_builtin_finish(r)
    \/ \E r \in Requests : _run_hbf_analysis(r)
    \/ \E r \in Requests : _save_hbf_results_to_database(r)
    \/ \E r \in Requests : _run_hbf_finish(r)
    \/ \E r \in Requests : run_analysis_except(r)
    \/ \E r \in Requests : DetailAfterRun(r)
    \/ \E r \in Requests : DetailFinal(r)
    \/ \E r \in Requests, sel \in SelChoices : analyze(r, sel)
    \/ \E r \in Requests : AnalyzeCheck(r)
    \/ \E r \in Requests, sel \in SelChoices : reanalyze(r, sel)
    \/ \E r \in Requests : ReanalyzeDelete(r)
    \/ \E r \in Requests : ReanalyzeRun(r)

Spec == Init /\ [][Next]_vars

(***************************************************************************)
(* Properties of the runs                                                  *)
(***************************************************************************)
OtherRows(rows, m) == { row \in rows : row.by # m }

\* C1: a step of a run of method A leaves the stored results of every other
\* method as they were: re-running A removes and replaces only A's results
C1_RerunKeepsOtherMethods ==
    [][\A r \in Requests :
          (Running(r) /\ req'[r] # req[r])
          => OtherRows(results', req[r].engine.analysis_method)
               = OtherRows(results, req[r].engine.analysis_method)]_vars

\* C2: two analysis runs of the project are never in flight at the same time
C2_OneRunAtATime == Cardinality({ r \in Requests : Running(r) }) <= 1

\* C3: a request that is refused because the project is being analysed
\* leaves the stored results and the project row as they were
C3_RefusalChangesNothing ==
    [][\A r \in Requests :
          (req[r].outcome # "refused" /\ req'[r].outcome = "refused")
          => /\ results' = results
             /\ project' = project
             /\ soil_layers' = soil_layers
             /\ boreholes' = boreholes]_vars

\* a request has been refused while a run that has stored results is in flight
C3_Witness ==
    \E r, q \in Requests :
        /\ req[r].outcome = "refused"
        /\ Running(q)
        /\ results # {}

C6_FailureOnlyWithoutResults ==
    \A r \in Requests :
        (req[r].pc = "return" /\ req[r].engine.results # {}) =>
            /\ req[r].analysis_result.success
            /\ req[r].project.status # "error"

OutOfBounds(h) == ~ query_seismic_parameters(h.twd97_x, h.twd97_y).success

\* C7: the layers of a borehole whose coordinates are outside the bounds are
\* analysed with SDS = 0.6 and SMS = 0.8, and the warnings handed back by the
\* import or by the run hold a warning for that borehole
C7_OutOfRangeDefaults ==
    \A r \in Requests :
        (req[r].pc = "return" /\ ~ UsesHbf(r)) =>
            \A l \in soil_layers :
                (l.id \in req[r].engine.results /\ OutOfBounds(BoreholeRow(l.borehole_id))) =>
                    /\ \A row \in results :
                         (row.soil_layer = l.id /\ row.by = req[r].engine.analysis_method) =>
                             /\ row.values.design.sd_s = Lin(Scale, 6, 10)
                             /\ row.values.design.sm_s = Lin(Scale, 8, 10)
                    /\ \E w \in req[r].engine.warnings \cup import_result.warnings :
                         w.borehole_id = l.borehole_id

\* C8: every stored factor of safety is within [0, 3]
C8_FsWithinBounds ==
    \A row \in results :
        row.by # "HBF" =>
            \A s \in Scenarios : 0 <= row.values[s].fs /\ row.values[s].fs <= 3 * Scale

\* the magnitude the scenarios are to use: base_mw + adjustment within [5.0, 8.5]
ClampMw(mw) == Max(5 * Scale, Min(Lin(Scale, 85, 10), mw))

\* C12: the magnitude stored for a layer of a borehole with a base_mw is
\* clamp(base_mw + adjustment, 5.0, 8.5), the adjustment being 0 for the
\* design earthquake, -0.2 for the mid and +0.2 for the max earthquake
C12_ScenarioMw ==
    \A row \in results :
        row.by # "HBF" =>
            \A l \in soil_layers :
                (l.id = row.soil_layer /\ Truthy(BoreholeRow(l.borehole_id).base_mw)) =>
                    LET base_mw == BoreholeRow(l.borehole_id).base_mw[1] IN
                    /\ row.values.design.mw = ClampMw(base_mw)
                    /\ row.values.mid.mw = ClampMw(base_mw - Lin(Scale, 2, 10))
                    /\ row.values.max.mw = ClampMw(base_mw + Lin(Scale, 2, 10))

\* what rounding the stored factors to three decimals can change in a product
CsrTolerance == Scale \div 200

\* C17: the CSR stored for a layer and scenario is 0.65 x A_value x
\* (sigma_v / sigma_v_CSR) x rd, sigma_v the layer's total and sigma_v_CSR its
\* effective vertical stress, up to the rounding of the stored values
C17_CsrFormula ==
    \A row \in results :
        row.by # "HBF" =>
            \A s \in Scenarios :
                LET v == row.values[s]
                    expected == Rat(Mul(Mul(v.a_value, Div(row.values.sigma_v, row.values.sigma_v_csr)),
                                        v.rd), 65, 100)
                IN  /\ v.csr - expected <= CsrTolerance
                    /\ expected - v.csr <= CsrTolerance

\* C13: a layer whose unit weight is missing is analysed with unit weight
\* 0.0: the total stress stored for it is 0.0 times its analysis depth
C13_MissingUnitWeightIsZero ==
    \A row \in results :
        row.by # "HBF" =>
            \A l \in soil_layers :
                (l.id = row.soil_layer /\ IsNone(l.unit_weight)) => row.values.sigma_v = 0

\* C21: a request to any view that starts a run, arriving while the project
\* is processing, is refused when at most ten minutes have passed since the
\* project's last update, and after more than ten minutes resets the project
\* to pending and goes on
C21_StaleAfterTenMinutes ==
    [][\A r \in Requests :
          (req[r].pc = "idle" /\ req'[r].pc # "idle" /\ project.status = "processing")
          => IF time_diff > StaleMinutes
             THEN project'.status = "pending" /\ req'[r].outcome # "refused"
             ELSE req'[r].outcome = "refused"]_vars

\* C22: a soil layer has at most one stored result per method, whatever
\* runs have taken place
C22_OneResultPerLayerAndMethod ==
    \A l \in soil_layers, m \in Methods \cup {""} :
        /\ Cardinality({ row \in results : row.soil_layer = l.id /\ row.analysis_method = m }) <= 1
        /\ Cardinality({ row \in results : row.soil_layer = l.id /\ row.by = m }) <= 1

\* the second method of a request has stored a result while another run of
\* the project is in its layer loop
C22_Witness ==
    \E r, q \in Requests :
        /\ r # q
        /\ req[r].i = 2
        /\ req[r].pc = "layers"
        /\ req[r].engine.results # {}
        /\ req[q].pc = "layers"
        /\ req[q].engine.analysis_method # req[r].engine.analysis_method
        /\ \E row \in results : row.by = req[r].engine.analysis_method

\* C23: run_analysis first saves the project as processing, and when it
\* returns, by its return statements or through its except branch, it has
\* saved the project as completed or as error
C23_RunEndsCompletedOrError ==
    [][\A r \in Requests :
          /\ (req[r].pc = "start" /\ req'[r].pc # "start")
             => /\ req'[r].pc \in RunPcs
                /\ project'.status = "processing"
                /\ req'[r].project.status = "processing"
          /\ (req[r].pc \in RunPcs /\ req'[r].pc \notin RunPcs)
             => /\ req'[r].pc = "return"
                /\ project'.status \in {"completed", "error"}
                /\ req'[r].project.status \in {"completed", "error"}]_vars

\* a run in which an exception was raised has returned through the except
\* branch of run_analysis
C23_Witness ==
    \E r \in Requests :
        /\ req[r].pc = "return"
        /\ req[r].analysis_result.has_error
        /\ req[r].project.status = "error"
        /\ project.status = "error"

\* C29: an import that fails, no borehole or no layer having been imported,
\* leaves the boreholes, the soil layers and the results stored for the
\* project as they were
C29_FailedImportKeepsData ==
    [][(imports' # imports /\ ~ import_result'.success)
       => /\ boreholes' = boreholes
          /\ soil_layers' = soil_layers
          /\ results' = results]_vars

(***************************************************************************)
(* NCEER.py: layer geometry and LPI of one well                            *)
(***************************************************************************)
\* layers of a well given to compute_coefficient
MaxWellLayers == 3

\* the depths, in metres, that the rows of the model's wells use
DepthGrid == {0, 1, 2, 5, 31}

\* 統體單位重(t/m3) of a row: missing, or a value
DensityValues == {Nothing, Some(Lin(Scale, 18, 10)), Some(2 * Scale)}

WellLayers ==
    { l \in [top_depth : {d * Scale : d \in DepthGrid}, bottom_depth : {d * Scale : d \in DepthGrid},
             unit_weight : DensityValues] :
        l.top_depth < l.bottom_depth }

Wells ==
    [ layers : UNION { [1 .. n -> WellLayers] : n \in 1 .. MaxWellLayers },
      water_depth : {0, 2 * Scale} ]

\* the factors of safety calculate_FS hands to the LPI: "-" or a number
FsValues == {Nothing, Some(Scale \div 2), Some(3 * Scale)}

\* the orders sort_values('上限深度(公尺)') may give the rows
SortedByTop(layers) ==
    { p \in [DOMAIN layers -> DOMAIN layers] :
        /\ \A i, j \in DOMAIN layers : i # j => p[i] # p[j]
        /\ \A i, j \in DOMAIN layers :
             i < j => layers[p[i]].top_depth <= layers[p[j]].top_depth }

\* 土層深度 of row i: halfway between its bottom and the top of the next
\* row, the bottom itself for the last row
DirtDepth(layers, i) ==
    IF i + 1 <= Len(layers)
    THEN (layers[i].bottom_depth + layers[i + 1].top_depth) \div 2
    ELSE layers[i].bottom_depth

\* the Density column: the row's unit weight, 0.0 where it is missing
Density(layers, i) ==
    IF IsNone(layers[i].unit_weight) THEN 0 ELSE layers[i].unit_weight[1]

\* rows whose 土層深度 exceeds 30 m are dropped
ValidRows(layers) ==
    LET tagged == [i \in DOMAIN layers |->
                     [top_depth |-> layers[i].top_depth,
                      bottom_depth |-> layers[i].bottom_depth,
                      unit_weight |-> layers[i].unit_weight,
                      Density |-> Density(layers, i),
                      layer_depth |-> DirtDepth(layers, i)]]
        Keep(row) == ~ (row.layer_depth > 30 * Scale)
    IN  SelectSeq(tagged, Keep)

\* 土層厚度, 土層中點深度 and 分析點深度 of the kept rows
Geometry(layers, GWT_CSR) ==
    LET rows == ValidRows(layers)
        Thickness(i) == IF i = 1 THEN rows[1].layer_depth
                        ELSE rows[i].layer_depth - rows[i - 1].layer_depth
        Mid(i) == rows[i].layer_depth - Thickness(i) \div 2
        Analysis(i) == IF rows[i].layer_depth > GWT_CSR
                       THEN rows[i].layer_depth
                              - Min((rows[i].layer_depth - GWT_CSR) \div 2, Thickness(i) \div 2)
                       ELSE Mid(i)
    IN  [i \in DOMAIN rows |->
           [top_depth      |-> rows[i].top_depth,
            bottom_depth   |-> rows[i].bottom_depth,
            unit_weight    |-> rows[i].unit_weight,
            Density        |-> rows[i].Density,
            layer_depth    |-> rows[i].layer_depth,
            thickness      |-> Thickness(i),
            mid_depth      |-> Mid(i),
            analysis_depth |-> Analysis(i)]]

\* the product of two fixed-point numbers of either sign
SMul(a, b) ==
    IF (a < 0) = (b < 0)
    THEN Mul(IF a < 0 THEN 0 - a ELSE a, IF b < 0 THEN 0 - b ELSE b)
    ELSE 0 - Mul(IF a < 0 THEN 0 - a ELSE a, IF b < 0 THEN 0 - b ELSE b)

RECURSIVE cumulative_sigmav(_, _)
\* 累計sigmav of row i: the first row's analysis depth times its unit
\* weight; below it, the rest of the previous row at the previous row's
\* unit weight, then this row down to its analysis point at its own
cumulative_sigmav(rows, i) ==
    IF i = 1 THEN SMul(rows[1].analysis_depth, rows[1].Density)
    ELSE SMul(rows[i - 1].layer_depth - rows[i - 1].analysis_depth, rows[i - 1].Density)
           + SMul(rows[i].analysis_depth - rows[i - 1].layer_depth, rows[i].Density)
           + cumulative_sigmav(rows, i - 1)

\* sigma_v_CSR: the total stress less the water pressure below the water table
sigma_v_CSR(rows, i, GWT_CSR) ==
    IF rows[i].analysis_depth <= GWT_CSR THEN cumulative_sigmav(rows, i)
    ELSE cumulative_sigmav(rows, i) - Max(0, rows[i].analysis_depth - GWT_CSR)

\* the rows with their stresses
Stresses(rows, GWT_CSR) ==
    [i \in DOMAIN rows |->
       [top_depth      |-> rows[i].top_depth,
        bottom_depth   |-> rows[i].bottom_depth,
        unit_weight    |-> rows[i].unit_weight,
        Density        |-> rows[i].Density,
        layer_depth    |-> rows[i].layer_depth,
        thickness      |-> rows[i].thickness,
        mid_depth      |-> rows[i].mid_depth,
        analysis_depth |-> rows[i].analysis_depth,
        sigma_v        |-> cumulative_sigmav(rows, i),
        sigma_v_CSR    |-> sigma_v_CSR(rows, i, GWT_CSR)]]

\* format_result(value, 3): three decimals, ties away from zero
format_result(value) ==
    LET unit == Scale \div 1000
        mag == IF value < 0 THEN 0 - value ELSE value
        rounded == ((2 * mag + unit) \div (2 * unit)) * unit
    IN  IF value < 0 THEN 0 - rounded ELSE rounded

\* an LPI that leaves the thickness of the layer out
calculate_LPI_unit_thickness(row, fs_value) ==
    IF IsNone(fs_value) THEN Nothing
    ELSE IF row.analysis_depth > 20 * Scale THEN Some(0)
    ELSE Some(format_result(Mul(Max(0, Scale - fs_value[1]),
                                Max(0, 10 * Scale - row.analysis_depth \div 2))))

\* calculate_LPI_single_layer: "-" without a factor of safety, 0 below 20 m,
\* else max(0, 1 - FS) * (10 - 0.5 z) * thickness
calculate_LPI_single_layer(row, fs_value) ==
    IF IsNone(fs_value) THEN Nothing
    ELSE IF row.analysis_depth > 20 * Scale THEN Some(0)
    ELSE LET Wi == 10 * Scale - row.analysis_depth \div 2
             w == Mul(Max(0, Scale - fs_value[1]), Max(0, Wi))
         IN  IF Wi <= 0 THEN Some(0)
             ELSE IF row.thickness < 0
             THEN Some(format_result(0 - Mul(w, 0 - row.thickness)))
             ELSE Some(format_result(Mul(w, row.thickness)))

RECURSIVE SumLpi(_, _)
\* the well's total: the sum of the rows' LPI, "-" counted as 0
SumLpi(values, i) ==
    IF i = 0 THEN 0
    ELSE (IF IsNone(values[i]) THEN 0 ELSE values[i][1]) + SumLpi(values, i - 1)

InitNceer ==
    /\ NewProject
    /\ well \in Wells
    /\ coef = Nothing
    /\ lpi = Nothing
    /\ NoCall

\* compute_coefficient on the rows of the well
compute_coefficient ==
    /\ coef = Nothing
    /\ \E p \in SortedByTop(well.layers) :
         coef' = Some(Stresses(Geometry([i \in DOMAIN well.layers |-> well.layers[p[i]]],
                                        well.water_depth),
                               well.water_depth))
    /\ UNCHANGED <<dbVars, req, last_run, idem, well, lpi, callVars>>

\* NCEER_main: the LPI of every row for one scenario and the well's total
calculate_LPI ==
    /\ coef # Nothing
    /\ lpi = Nothing
    /\ coef[1] # <<>>
    /\ \E fs \in [DOMAIN coef[1] -> FsValues] :
         LET per_layer == [i \in DOMAIN coef[1] |-> calculate_LPI_single_layer(coef[1][i], fs[i])]
         IN  lpi' = Some([fs |-> fs, layer |-> per_layer,
                          total |-> format_result(SumLpi(per_layer, Len(per_layer)))])
    /\ UNCHANGED <<dbVars, req, last_run, idem, well, coef, callVars>>

NextNceer == compute_coefficient \/ calculate_LPI

SpecNceer == InitNceer /\ [][NextNceer]_vars

\* C9: every per-layer LPI is at least 0, and so is the well's LPI total
C9_LpiNonNegative ==
    lpi # Nothing =>
        /\ \A i \in DOMAIN lpi[1].layer :
             ~ IsNone(lpi[1].layer[i]) => lpi[1].layer[i][1] >= 0
        /\ lpi[1].total >= 0

\* C11: over the rows compute_coefficient returns, the cumulative total
\* stress of a row is at least that of the row before it whenever the unit
\* weights of both rows are non-negative
C11_StressMonotone ==
    coef # Nothing =>
        \A i \in DOMAIN coef[1] :
            (i > 1 /\ coef[1][i].Density >= 0 /\ coef[1][i - 1].Density >= 0)
            => coef[1][i].sigma_v >= coef[1][i - 1].sigma_v

\* C10: the layer depths of the rows compute_coefficient returns, which are
\* sorted by top depth, never decrease
C10_LayerDepthMonotone ==
    coef # Nothing =>
        \A i \in DOMAIN coef[1] : i > 1 => coef[1][i].layer_depth >= coef[1][i - 1].layer_depth

(***************************************************************************)
(* NCEER.py: calculate_FS on one row                                       *)
(***************************************************************************)
NceerScenarios == {"Design", "MidEq", "MaxEq"}

\* the rows given to calculate_FS: a first row of a well, at its analysis
\* depth, with the columns compute_coefficient and the seismic lookup gave it
FsRows ==
    { [analysis_depth |-> z, sigma_v |-> Mul(z, uw),
       sigma_v_CSR |-> IF z <= gwt THEN Mul(z, uw) ELSE Mul(z, uw) - (z - gwt),
       N1_60cs |-> n, base_mw |-> mw, SDS |-> sp[1], SMS |-> sp[2],
       data_source |-> src, site_class |-> sc] :
        z \in {Lin(Scale, 3, 2), 5 * Scale, 12 * Scale},
        uw \in {Lin(Scale, 18, 10)},
        gwt \in {0, 2 * Scale},
        n \in {Nothing, Some(10 * Scale), Some(25 * Scale), Some(34 * Scale)},
        mw \in {7 * Scale, Lin(Scale, 73, 10)},
        sp \in {<<Lin(Scale, 6, 10), Lin(Scale, 8, 10)>>, <<Lin(Scale, 8, 10), Scale>>},
        src \in {"basin", "general"},
        sc \in {1, 2, 3} }

\* earthquake_mw_adjustments
MwAdjustment(scenario) ==
    IF scenario = "MidEq" THEN 0 - Lin(Scale, 2, 10)
    ELSE IF scenario = "MaxEq" THEN Lin(Scale, 2, 10)
    ELSE 0

get_scenario_mw(base_mw, scenario) ==
    RoundTo(Max(5 * Scale, Min(Lin(Scale, 85, 10), base_mw + MwAdjustment(scenario))),
            Scale \div 10)

\* fa_table[site_class][get_range_key(value)]: the bands are those of
\* get_range_key, the site classes 1, 2, 3 the three 地盤 classes
compute_Fa(site_class, value) ==
    LET band == IF value <= Lin(Scale, 50, 100) THEN 5
                ELSE IF value <= Lin(Scale, 65, 100) THEN 6
                ELSE IF value <= Lin(Scale, 75, 100) THEN 7
                ELSE IF value <= Lin(Scale, 85, 100) THEN 8
                ELSE 9
    IN  IF site_class = 1 THEN Scale
        ELSE IF site_class = 2
        THEN (IF band <= 6 THEN Lin(Scale, 11, 10) ELSE Scale)
        ELSE (IF band <= 6 THEN Lin(Scale, 12, 10)
              ELSE IF band = 7 THEN Lin(Scale, 11, 10) ELSE Scale)

\* compute_A_value: a basin micro-zone row uses SDS and SMS as they are,
\* any other row amplifies them by Fa
compute_A_value(row, scenario) ==
    LET basin == row.data_source = "basin"
        SD_S == IF basin THEN row.SDS ELSE Mul(compute_Fa(row.site_class, row.SDS), row.SDS)
        SM_S == IF basin THEN row.SMS ELSE Mul(compute_Fa(row.site_class, row.SMS), row.SMS)
        A_value == IF scenario = "MidEq" THEN Lin(Lin(SD_S, 4, 10), 10, 42)
                   ELSE IF scenario = "MaxEq" THEN Lin(SM_S, 4, 10)
                   ELSE IF basin THEN Lin(Lin(SD_S, 4, 10), 10, 35)
                   ELSE Lin(SD_S, 4, 10)
    IN  [A_value |-> A_value, SD_S |-> SD_S, SM_S |-> SM_S]

\* compute_CRR_7_5: "-" without N1_60cs and when 34 - N1_60cs is 0
compute_CRR_7_5(N1_60cs) ==
    IF IsNone(N1_60cs) \/ N1_60cs = Some(34 * Scale) THEN Nothing
    ELSE LET n == N1_60cs[1]
             inverse == IF n < 34 * Scale THEN Div(Scale, 34 * Scale - n)
                        ELSE 0 - Div(Scale, n - 34 * Scale)
             base == 10 * n + 45 * Scale
         IN  Some(format_result(inverse + Rat(n, 1, 135)
                                  + Div(Div(50 * Scale, base), base) - Scale \div 200))

\* MSF = (Mw / 7.5) ** (-2.56)
NceerMSF(mw_value) ==
    IF mw_value <= Lin(Scale, 75, 10)
    THEN Pow(Div(Lin(Scale, 75, 10), mw_value), 256, 100)
    ELSE Div(Scale, Pow(Div(mw_value, Lin(Scale, 75, 10)), 256, 100))

\* rd, the stress reduction factor at depth z
NceerRd(z) ==
    LET root == Sqrt(z)
        z15 == Mul(z, root)
        z2 == Mul(z, z)
        num == Scale - Rat(root, 4113, 10000) + Rat(Rat(z, 4052, 10000), 1, 10)
                 + Rat(Rat(z15, 1753, 10000), 1, 100)
        den == Scale - Rat(root, 4117, 10000) + Rat(Rat(z, 5729, 10000), 1, 10)
                 - Rat(Rat(z15, 6205, 10000), 1, 100) + Rat(Rat(z2, 1210, 10000), 1, 100)
    IN  Div(num, den)

\* what calculate_FS returns when only the magnitude is known
OnlyMw(mw_value) ==
    [Mw_used |-> Some(format_result(mw_value)), A_value |-> Nothing, SD_S |-> Nothing,
     SM_S |-> Nothing, MSF |-> Nothing, rd |-> Nothing, CSR |-> Nothing,
     CRR |-> Nothing, FS |-> Nothing]

\* calculate_FS on rows whose depth and stresses are present. Without a
\* CRR_7_5 the branch that sets FS = 3 reads the local variable depth before
\* the function has assigned it: the UnboundLocalError is caught by the
\* branch's except, which sets every other field to "-". The plasticity
\* index and depth conditions are computed and not used.
calculate_FS_row(row, scenario) ==
    LET mw_value == get_scenario_mw(row.base_mw, scenario)
        CRR_7_5_value == compute_CRR_7_5(row.N1_60cs)
    IN  IF IsNone(CRR_7_5_value)
        THEN [OnlyMw(mw_value) EXCEPT !.FS = Some(3 * Scale)]
        ELSE LET a == compute_A_value(row, scenario)
                 MSF == NceerMSF(mw_value)
                 rd == NceerRd(row.analysis_depth)
                 CSR == Rat(Mul(Mul(a.A_value, Div(row.sigma_v, row.sigma_v_CSR)), rd), 65, 100)
                 CRR == Mul(CRR_7_5_value[1], MSF)
                 FS == IF CSR > 0 THEN Min(Div(CRR, CSR), 3 * Scale) ELSE 3 * Scale
             IN  [Mw_used |-> Some(format_result(mw_value)),
                  A_value |-> Some(format_result(a.A_value)),
                  SD_S |-> Some(format_result(a.SD_S)),
                  SM_S |-> Some(format_result(a.SM_S)),
                  MSF |-> Some(format_result(MSF)),
                  rd |-> Some(format_result(rd)),
                  CSR |-> Some(format_result(CSR)),
                  CRR |-> Some(format_result(CRR)),
                  FS |-> Some(format_result(FS))]

InitFs ==
    /\ NewProject
    /\ NoWell
    /\ arg \in { Some(row) : row \in FsRows }
    /\ ret = Nothing

\* NCEER_main applies calculate_FS to the row for a scenario
calculate_FS ==
    /\ arg # Nothing
    /\ ret = Nothing
    /\ \E scenario \in NceerScenarios :
         ret' = Some([scenario |-> scenario, result |-> calculate_FS_row(arg[1], scenario)])
    /\ UNCHANGED <<dbVars, req, last_run, idem, nceerVars, arg>>

NextFs == calculate_FS

SpecFs == InitFs /\ [][NextFs]_vars

\* C14: when CRR_7_5 cannot be computed for the row, calculate_FS returns
\* FS = 3 and the magnitude, and also A_value, MSF and rd, whose inputs (SDS,
\* SMS, the magnitude and the depth) the row has
C14_FsThreeKeepsIntermediates ==
    (ret # Nothing /\ IsNone(compute_CRR_7_5(arg[1].N1_60cs))) =>
        /\ ret[1].result.FS = Some(3 * Scale)
        /\ ~ IsNone(ret[1].result.Mw_used)
        /\ ~ IsNone(ret[1].result.A_value)
        /\ ~ IsNone(ret[1].result.MSF)
        /\ ~ IsNone(ret[1].result.rd)

(***************************************************************************)
(* Screening of one uploaded layer: csv_parser, import, engine             *)
(***************************************************************************)
\* the 塑性指數 cell of a row: its text, and its value when it is a number
PlasticIndexCells ==
    { [text |-> "", number |-> Nothing], [text |-> "-", number |-> Nothing],
      [text |-> "NP", number |-> Nothing], [text |-> "np", number |-> Nothing],
      [text |-> "n/a", number |-> Nothing] }
    \cup { [text |-> "number", number |-> Some(v * Scale)] : v \in {0, 10, 13, 16, 20} }

ScreenRows ==
    [ method : Methods,
      uscs : {"", "SM", "SC", "ML", "CL", "CH"},
      fines_content : {Nothing, Some(20 * Scale), Some(40 * Scale)},
      pi_value : PlasticIndexCells ]

\* str(pi_value).strip().upper() of the cells of the model
Upper(text) == IF text = "np" THEN "NP" ELSE IF text = "n/a" THEN "N/A" ELSE text

\* a layer that reads NP is taken as one whose plasticity index is missing
ParsePlasticIndexNpMissing(cell) ==
    IF cell.text \in {"", "-"} \/ Upper(cell.text) = "NP"
    THEN [plastic_index |-> Nothing, plastic_index_original |-> "", warned |-> FALSE]
    ELSE IF ~ IsNone(cell.number)
    THEN [plastic_index |-> cell.number, plastic_index_original |-> "number", warned |-> FALSE]
    ELSE [plastic_index |-> Nothing, plastic_index_original |-> Upper(cell.text), warned |-> TRUE]

\* _parse_soil_layer_data on the 塑性指數 cell: NP is 0 with the original
\* text kept, a number is itself, anything else is warned about and left out
ParsePlasticIndex(cell) ==
    IF cell.text \in {"", "-"}
    THEN [plastic_index |-> Nothing, plastic_index_original |-> "", warned |-> FALSE]
    ELSE IF Upper(cell.text) = "NP"
    THEN [plastic_index |-> Some(0), plastic_index_original |-> "NP", warned |-> FALSE]
    ELSE IF ~ IsNone(cell.number)
    THEN [plastic_index |-> cell.number, plastic_index_original |-> "number", warned |-> FALSE]
    ELSE [plastic_index |-> Nothing, plastic_index_original |-> Upper(cell.text), warned |-> TRUE]

\* the SoilLayer fields the screening reads, as the import stores them
ScreenedLayer(row) ==
    [uscs |-> row.uscs, fines_content |-> row.fines_content,
     plastic_index |-> ParsePlasticIndex(row.pi_value).plastic_index]

InitScreen ==
    /\ NewProject
    /\ NoWell
    /\ arg \in { Some(row) : row \in ScreenRows }
    /\ ret = Nothing

\* the row is parsed, imported and screened by the engine of its method
screen_layer ==
    /\ arg # Nothing
    /\ ret = Nothing
    /\ ret' = Some([parsed |-> ParsePlasticIndex(arg[1].pi_value),
                    liquefiable |-> _is_liquefiable_soil(arg[1].method, ScreenedLayer(arg[1]))])
    /\ UNCHANGED <<dbVars, req, last_run, idem, nceerVars, arg>>

NextScreen == screen_layer

SpecScreen == InitScreen /\ [][NextScreen]_vars

\* C15: a layer of a class the method takes as liquefiable and with fines
\* content above 35 % is screened out by NCEER exactly when its plasticity
\* index is above 18 %, and by AIJ and JRA whatever its plasticity index
C15_FinesScreening ==
    (  ret # Nothing /\ ~ IsNone(arg[1].fines_content)
    /\ arg[1].fines_content[1] > 35 * Scale) =>
        LET pi == ret[1].parsed.plastic_index IN
        /\ (arg[1].method = "NCEER" /\ arg[1].uscs \in {"SM", "SC", "ML", "CL"})
             => (ret[1].liquefiable <=> ~ (~ IsNone(pi) /\ pi[1] > 18 * Scale))
        /\ (arg[1].method \in {"AIJ", "JRA"} /\ arg[1].uscs \in {"SM", "ML"})
             => ~ ret[1].liquefiable

\* C16: a plasticity index given as NP is stored as 0 with the original NP
\* kept, and under every method the layer is screened as the same layer
\* without a plasticity index is: no plasticity rule screens it out
C16_NonPlasticNeverScreened ==
    (ret # Nothing /\ Upper(arg[1].pi_value.text) = "NP") =>
        /\ ret[1].parsed.plastic_index = Some(0)
        /\ ret[1].parsed.plastic_index_original = "NP"
        /\ ret[1].liquefiable
             = _is_liquefiable_soil(arg[1].method,
                                    [uscs |-> arg[1].uscs, fines_content |-> arg[1].fines_content,
                                     plastic_index |-> Nothing])

\* an NP layer of silty sand with few fines has been screened by AIJ, which
\* screens out the same layer with a plasticity index of 16, and is kept
C16_Witness ==
    /\ ret # Nothing
    /\ arg[1].pi_value.text = "np"
    /\ arg[1].method = "AIJ"
    /\ arg[1].uscs = "SM"
    /\ arg[1].fines_content = Some(20 * Scale)
    /\ ret[1].liquefiable
    /\ ~ _is_liquefiable_soil("AIJ", [uscs |-> "SM", fines_content |-> Some(20 * Scale),
                                      plastic_index |-> Some(16 * Scale)])

\* C18: the A_value calculate_FS returns is 0.4 x SD_S for Design,
\* 0.4 x SD_S / 4.2 for MidEq and 0.4 x SM_S for MaxEq, whatever the source
\* of the row's parameters; for a basin micro-zone row SD_S and SM_S are the
\* row's SDS and SMS without amplification
C18_AValue ==
    (arg # Nothing /\ ret # Nothing /\ "result" \in DOMAIN ret[1]
       /\ ~ IsNone(ret[1].result.A_value)) =>
        LET r == ret[1].result
            SD_S == r.SD_S[1]
            SM_S == r.SM_S[1]
        IN  /\ ret[1].scenario = "Design" => r.A_value[1] = format_result(Lin(SD_S, 4, 10))
            /\ ret[1].scenario = "MidEq"
                 => r.A_value[1] = format_result(Lin(Lin(SD_S, 4, 10), 10, 42))
            /\ ret[1].scenario = "MaxEq" => r.A_value[1] = format_result(Lin(SM_S, 4, 10))
            /\ arg[1].data_source = "basin" => (SD_S = arg[1].SDS /\ SM_S = arg[1].SMS)

(***************************************************************************)
(* SeismicParameterService: the steps of query_seismic_parameters          *)
(***************************************************************************)
\* The names the geocoder gives for the city of a place. A name written with
\* 臺 is spelled plainly, the same name written with 台 ends in _variant:
\* 臺北市, 台北市, 新北市, 新竹縣, 臺中市, 台中市 and 連江縣
Cities == {"Taipei", "Taipei_variant", "NewTaipei", "Hsinchu", "Taichung",
           "Taichung_variant", "Lienchiang"}

\* normalize_address_name: 台北市, 台中市, 台南市 and 台東縣 are rewritten
\* with 臺
normalize_address_name(name) ==
    IF name = "Taipei_variant" THEN "Taipei"
    ELSE IF name = "Taichung_variant" THEN "Taichung"
    ELSE name

\* city_mw_mapping.get(city, 7.0): the table has 臺北市 and 新北市 at 7.3,
\* 台中市 at 7.1 and 新竹縣 at 6.9; 連江縣 is not in it
city_mw_mapping(city) ==
    IF city \in {"Taipei", "NewTaipei"} THEN Lin(Scale, 73, 10)
    ELSE IF city = "Taichung_variant" THEN Lin(Scale, 71, 10)
    ELSE IF city = "Hsinchu" THEN Lin(Scale, 69, 10)
    ELSE 7 * Scale

\* _estimate_vs30: a base value by the band of y, a variation of -50 to
\* +150 from the last three digits of x and y, kept within [200, 800]
_estimate_vs30(x, y) ==
    LET base_vs30 == IF y > 2750000 THEN 600
                     ELSE IF 2650000 <= y /\ y <= 2750000 THEN 400
                     ELSE IF y < 2550000 THEN 350
                     ELSE 450
        variation == (((x % 1000) + (y % 1000)) * Scale) \div 10 - 50 * Scale
    IN  Max(200 * Scale, Min(800 * Scale, base_vs30 * Scale + variation))

_determine_site_class(vs30) ==
    IF vs30 >= 760 * Scale THEN "A"
    ELSE IF vs30 >= 360 * Scale THEN "B"
    ELSE IF vs30 >= 180 * Scale THEN "C"
    ELSE IF vs30 >= 120 * Scale THEN "D"
    ELSE "E"

taipei_regions == {"Taipei", "NewTaipei"}

\* distance_ranges: the distance in km that stands for a bin of the table
distance_ranges(r) ==
    IF r = "<=1" THEN 1 * Scale
    ELSE IF r = "3" THEN 3 * Scale
    ELSE IF r = "5" THEN 5 * Scale
    ELSE IF r = "7" THEN 7 * Scale
    ELSE IF r = "9" THEN 9 * Scale
    ELSE IF r = "11" THEN 11 * Scale
    ELSE IF r = "13" THEN 13 * Scale
    ELSE 14 * Scale

\* a record of the fault table for a bin: the parameters fall off with the
\* distance from the fault
FaultRecord(r, sds) ==
    [r |-> r, SDS |-> Lin(Scale, sds, 100), SD1 |-> Lin(Scale, sds - 25, 100),
     SMS |-> Lin(Scale, sds + 20, 100), SM1 |-> Lin(Scale, sds - 10, 100)]

\* the records of the fault table that match the nearest fault and the
\* borehole's city and district, in the order of the file: none, all eight
\* bins, or two bins only
MatchingRecords ==
    { <<>>,
      <<FaultRecord("<=1", 100), FaultRecord("3", 95), FaultRecord("5", 90),
        FaultRecord("7", 85), FaultRecord("9", 80), FaultRecord("11", 80),
        FaultRecord("13", 80), FaultRecord(">=14", 80)>>,
      <<FaultRecord("3", 95), FaultRecord("7", 85)>> }

\* distances to the nearest fault, in km
FaultDistances == { Lin(Scale, d, 2) : d \in {1, 2, 4, 6, 9, 27, 28, 30} }

abs(x) == IF x < 0 THEN 0 - x ELSE x

\* the record the loop keeps: the first of those whose bin is closest
BestRecord(distance_km, matching_records) ==
    LET diff(i) == abs(distance_km - distance_ranges(matching_records[i].r))
        best == CHOOSE i \in DOMAIN matching_records :
                    /\ \A j \in DOMAIN matching_records : diff(i) <= diff(j)
                    /\ \A j \in DOMAIN matching_records : (j < i) => diff(j) > diff(i)
    IN  matching_records[best]

\* get_fault_based_parameters, given the records that match the fault and
\* the place: nothing beyond 14 km or without records, else the parameters
\* of the record whose bin is closest to the distance
get_fault_based_parameters(distance_km, matching_records) ==
    IF distance_km > 14 * Scale THEN Nothing
    ELSE IF matching_records = <<>> THEN Nothing
    ELSE LET best_record == BestRecord(distance_km, matching_records)
         IN  Some([r |-> best_record.r, SDS |-> best_record.SDS, SD1 |-> best_record.SD1,
                   SMS |-> best_record.SMS, SM1 |-> best_record.SM1])

\* the queries of the model, after the geocoding has named the place: the
\* coordinates, the city as the geocoder wrote it (addr_city) and as
\* normalize_address_name left it (city), whether fault data is used, the
\* distance to the nearest fault, what the fault table, the basin
\* micro-zones and the general zone table hold
SeismicQueries ==
    { [ twd97_x |-> x, twd97_y |-> y,
        addr_city |-> g.addr_city, city |-> normalize_address_name(g.addr_city),
        district |-> g.district, village |-> g.village,
        use_fault_data |-> g.use_fault_data,
        min_distance |-> g.min_distance,
        matching_records |-> g.matching_records,
        taipei_zone |-> g.taipei_zone,
        village_data |-> g.village_data ] :
        x \in {250000, 250900}, y \in {2500000, 2700000, 2780000},
        g \in [ addr_city : Cities, district : {"", "d"}, village : {"", "v"},
                use_fault_data : BOOLEAN,
                min_distance : FaultDistances,
                matching_records : MatchingRecords,
                taipei_zone : BOOLEAN,
                village_data : BOOLEAN ] }

\* no place is exempt from the fault step
SkipFaultNever(city) == FALSE

\* 臺北市 and 新北市 skip the fault step
skip_fault_calculation(city) == city \in taipei_regions

\* step 3: the parameters of the fault table, for a place that is not exempt
\* when fault data is used and the nearest fault is within 14 km
FaultStep(q) ==
    IF skip_fault_calculation(q.city) \/ ~ q.use_fault_data THEN Nothing
    ELSE IF q.min_distance <= 14 * Scale
    THEN get_fault_based_parameters(q.min_distance, q.matching_records)
    ELSE Nothing

\* step 4: the basin micro-zone of a district of 臺北市 or 新北市
BasinStep(q) == q.city \in taipei_regions /\ q.district # "" /\ q.taipei_zone

\* step 5: the general zone table, which needs the district and the village
GeneralStep(q) == q.district # "" /\ q.village # "" /\ q.village_data

\* steps 3 to 6 of query_seismic_parameters: the first step that finds
\* parameters gives the result
QuerySteps(q) ==
    LET fault_params == FaultStep(q)
        base_mw == city_mw_mapping(q.city)
        vs30 == _estimate_vs30(q.twd97_x, q.twd97_y)
        result ==
            IF BasinStep(q)
            THEN [data_source |-> "basin", r |-> "",
                  sds |-> Some(Lin(Scale, 6, 10)), sms |-> Some(Lin(Scale, 8, 10)),
                  sd1 |-> Nothing, sm1 |-> Nothing,
                  base_mw |-> base_mw, vs30 |-> vs30, site_class |-> Nothing]
            ELSE IF GeneralStep(q)
            THEN [data_source |-> "general", r |-> "",
                  sds |-> Some(Lin(Scale, 8, 10)), sms |-> Some(Scale),
                  sd1 |-> Some(Lin(Scale, 45, 100)), sm1 |-> Some(Lin(Scale, 55, 100)),
                  base_mw |-> base_mw, vs30 |-> vs30, site_class |-> Nothing]
            ELSE [data_source |-> "default", r |-> "",
                  sds |-> Some(Lin(Scale, 6, 10)), sms |-> Some(Lin(Scale, 8, 10)),
                  sd1 |-> Nothing, sm1 |-> Nothing,
                  base_mw |-> base_mw, vs30 |-> vs30, site_class |-> Nothing]
    IN  IF ~ IsNone(fault_params)
        \* the fault step returns its result as it is
        THEN [data_source |-> "fault", r |-> fault_params[1].r,
              sds |-> Some(fault_params[1].SDS), sms |-> Some(fault_params[1].SMS),
              sd1 |-> Some(fault_params[1].SD1), sm1 |-> Some(fault_params[1].SM1),
              base_mw |-> base_mw, vs30 |-> vs30, site_class |-> Nothing]
        \* the other steps go on to the site class
        ELSE IF result.vs30 # 0
        THEN [result EXCEPT !.site_class = Some(_determine_site_class(result.vs30))]
        ELSE result

InitSeismic ==
    /\ NewProject
    /\ NoWell
    /\ arg \in { Some(q) : q \in SeismicQueries }
    /\ ret = Nothing

\* query_seismic_parameters for a coordinate inside the bounds
seismic_query ==
    /\ arg # Nothing
    /\ ret = Nothing
    /\ ret' = Some(QuerySteps(arg[1]))
    /\ UNCHANGED <<dbVars, req, last_run, idem, nceerVars, arg>>

NextSeismic == seismic_query

SpecSeismic == InitSeismic /\ [][NextSeismic]_vars

\* the fault table has parameters for the place at its distance
FaultTableMatches(q) ==
    q.use_fault_data /\ q.min_distance <= 14 * Scale /\ q.matching_records # <<>>

Interpolated(d, records, field) ==
    LET below == { i \in DOMAIN records : distance_ranges(records[i].r) <= d }
        above == { i \in DOMAIN records : distance_ranges(records[i].r) >= d }
        lo == CHOOSE i \in below : \A j \in below : distance_ranges(records[j].r) <= distance_ranges(records[i].r)
        hi == CHOOSE i \in above : \A j \in above : distance_ranges(records[j].r) >= distance_ranges(records[i].r)
    IN  IF below = {} THEN records[hi][field]
        ELSE IF above = {} THEN records[lo][field]
        ELSE IF distance_ranges(records[hi].r) = distance_ranges(records[lo].r) THEN records[lo][field]
        ELSE (records[lo][field] * (distance_ranges(records[hi].r) - d)
                + records[hi][field] * (d - distance_ranges(records[lo].r)))
               \div (distance_ranges(records[hi].r) - distance_ranges(records[lo].r))

\* C20: fault-distance parameters are the linear interpolation between the
\* two bins of the table that bracket the distance, the nearest bin's values
\* for a distance outside the bins, and none are given beyond 14 km
C20_FaultInterpolation ==
    ret # Nothing =>
        /\ arg[1].min_distance > 14 * Scale => ret[1].data_source # "fault"
        /\ ret[1].data_source = "fault" =>
             LET d == arg[1].min_distance
                 records == arg[1].matching_records
             IN  /\ ret[1].sds = Some(Interpolated(d, records, "SDS"))
                 /\ ret[1].sd1 = Some(Interpolated(d, records, "SD1"))
                 /\ ret[1].sms = Some(Interpolated(d, records, "SMS"))
                 /\ ret[1].sm1 = Some(Interpolated(d, records, "SM1"))

(***************************************************************************)
(* analysis_engine.py: the total stress of the layers of one borehole      *)
(***************************************************************************)
\* boreholes of two layers, one on top of the other from the surface, each
\* 1.5 m or 3 m thick, with or without a unit weight
StackedLayers ==
    { <<[top_depth |-> 0, bottom_depth |-> a, unit_weight |-> u],
        [top_depth |-> a, bottom_depth |-> a + b, unit_weight |-> v]>> :
        a \in {Lin(Scale, 3, 2), 3 * Scale}, b \in {Lin(Scale, 3, 2), 3 * Scale},
        u \in {Nothing, Some(Lin(Scale, 18, 10)), Some(Lin(Scale, 19, 10)), Some(2 * Scale)},
        v \in {Nothing, Some(Lin(Scale, 18, 10)), Some(Lin(Scale, 19, 10)), Some(2 * Scale)} }

InitStress ==
    /\ NewProject
    /\ NoWell
    /\ arg \in { Some(layers) : layers \in StackedLayers }
    /\ ret = Nothing

\* the analysis depth and the total stress _analyze_soil_layer computes for
\* each layer of the borehole, in the order of the layer loop
layer_stresses ==
    /\ arg # Nothing
    /\ ret = Nothing
    /\ ret' = Some([i \in DOMAIN arg[1] |->
                      [analysis_depth |-> AnalysisDepth(arg[1][i]),
                       sigma_v |-> _calculate_total_stress(arg[1][i], AnalysisDepth(arg[1][i]))]])
    /\ UNCHANGED <<dbVars, req, last_run, idem, nceerVars, arg>>

NextStress == layer_stresses

SpecStress == InitStress /\ [][NextStress]_vars

\* C24: in a borehole whose layers have a unit weight, the total stress of
\* the first layer is its analysis depth times its unit weight, and that of
\* a layer below is the rest of the layer above at that layer's unit weight,
\* plus this layer down to its analysis depth at its own unit weight, plus
\* the total stress of the layer above
C24_CumulativeStress ==
    (ret # Nothing /\ \A i \in DOMAIN arg[1] : Truthy(arg[1][i].unit_weight)) =>
        LET layers == arg[1]
            rows == ret[1]
            expected(i) ==
                IF i = 1 THEN Mul(rows[1].analysis_depth, layers[1].unit_weight[1])
                ELSE Mul(layers[i - 1].bottom_depth - rows[i - 1].analysis_depth,
                         layers[i - 1].unit_weight[1])
                       + Mul(rows[i].analysis_depth - layers[i - 1].bottom_depth,
                             layers[i].unit_weight[1])
                       + rows[i - 1].sigma_v
        IN  \A i \in DOMAIN rows :
                /\ rows[i].sigma_v - expected(i) <= CsrTolerance
                /\ expected(i) - rows[i].sigma_v <= CsrTolerance

(***************************************************************************)
(* NCEER.py: the LPI total of a well that reaches below 20 m               *)
(***************************************************************************)
\* wells of three rows, one below the other, down to 26 m or 31 m
DeepWells ==
    { [layers |-> <<[top_depth |-> 0, bottom_depth |-> a * Scale, unit_weight |-> u],
                    [top_depth |-> a * Scale, bottom_depth |-> b * Scale, unit_weight |-> u],
                    [top_depth |-> b * Scale, bottom_depth |-> c * Scale, unit_weight |-> u]>>,
       water_depth |-> w * Scale] :
        a \in {2, 18}, b \in {19, 22}, c \in {26, 31}, w \in {0, 2},
        u \in {Nothing, Some(Lin(Scale, 18, 10))} }

InitLpi ==
    /\ NewProject
    /\ well \in DeepWells
    /\ coef = Nothing
    /\ lpi = Nothing
    /\ NoCall

SpecLpi == InitLpi /\ [][NextNceer]_vars

\* what rounding the rows' LPI and their sum to three decimals can change
LpiTolerance == 4 * (Scale \div 2000)

\* C25: the LPI total of a well for a scenario is the sum, over its rows
\* with an analysis depth z of at most 20 m and a factor of safety, of
\* max(0, 1 - FS) x (10 - 0.5 z) x thickness; the other rows add nothing
C25_LpiSummary ==
    lpi # Nothing =>
        LET rows == coef[1]
            contribution(i) ==
                IF IsNone(lpi[1].fs[i]) \/ rows[i].analysis_depth > 20 * Scale THEN 0
                ELSE Mul(Mul(Max(0, Scale - lpi[1].fs[i][1]),
                             10 * Scale - rows[i].analysis_depth \div 2),
                         rows[i].thickness)
            Sum[i \in 0 .. Len(rows)] == IF i = 0 THEN 0 ELSE contribution(i) + Sum[i - 1]
        IN  /\ lpi[1].total - Sum[Len(rows)] <= LpiTolerance
            /\ Sum[Len(rows)] - lpi[1].total <= LpiTolerance

\* the total of a well has been computed that has a liquefied row above
\* 20 m, a liquefied row below 20 m and a row without a factor of safety
C25_Witness ==
    /\ lpi # Nothing
    /\ lpi[1].total > 0
    /\ \E i, j, k \in DOMAIN coef[1] :
         /\ coef[1][i].analysis_depth > 20 * Scale
         /\ lpi[1].fs[i] = Some(Scale \div 2)
         /\ coef[1][j].analysis_depth <= 20 * Scale
         /\ lpi[1].fs[j] = Some(Scale \div 2)
         /\ IsNone(lpi[1].fs[k])

(***************************************************************************)
(* NCEER.py: compute_N1_60 on the rows of one well                         *)
(***************************************************************************)
\* compute_N1_60 of a row with the blow count N_value and the default Em.
\* sigma_v_CRR is computed as sigma_v_CSR is, with the same water level.
\* The guard looks at the total stress only. Pa / sigma_v_CRR with
\* sigma_v_CRR = 0 raises ZeroDivisionError, which the except clause does not
\* catch, when the row holds a Python float, and is inf when it holds a
\* numpy scalar (numpy_scalar); the square root of a negative ratio is nan
\* and format_result turns it into "-".
compute_N1_60(row, N_value, numpy_scalar) ==
    LET sigma_v_CRR == row.sigma_v_CSR
        N60 == format_result(Rat(N_value[1], em_value, 60))
        Cn == IF 289 * sigma_v_CRR <= 100 * 100 * Scale THEN Lin(Scale, 17, 10)
              ELSE Min(Sqrt(Div(100 * Scale, sigma_v_CRR)), Lin(Scale, 17, 10))
    IN  IF IsNone(N_value) \/ row.sigma_v <= 0 THEN [raised |-> FALSE, N1_60 |-> Some(0)]
        ELSE IF sigma_v_CRR = 0 /\ ~ numpy_scalar THEN [raised |-> TRUE, N1_60 |-> Nothing]
        ELSE IF sigma_v_CRR < 0 THEN [raised |-> FALSE, N1_60 |-> Nothing]
        ELSE [raised |-> FALSE, N1_60 |-> Some(format_result(Mul(Cn, N60)))]

\* NCEER_main: well_df.apply(self.compute_N1_60, axis=1)
apply_compute_N1_60 ==
    /\ coef # Nothing
    /\ coef[1] # <<>>
    /\ ret = Nothing
    /\ \E N_value \in {Nothing, Some(10 * Scale)}, numpy_scalar \in BOOLEAN :
         ret' = Some([N_value |-> N_value,
                      N1_60 |-> [i \in DOMAIN coef[1] |->
                                   compute_N1_60(coef[1][i], N_value, numpy_scalar)]])
    /\ UNCHANGED <<dbVars, req, last_run, idem, nceerVars, arg>>

NextN160 == compute_coefficient \/ apply_compute_N1_60

SpecN160 == InitNceer /\ [][NextN160]_vars

\* C26: compute_N1_60 of a row with a blow count whose effective stress
\* sigma_v_CRR is zero or negative does not raise and returns a number
C26_N160WithoutEffectiveStress ==
    ret # Nothing =>
        \A i \in DOMAIN coef[1] :
            (coef[1][i].sigma_v_CSR <= 0 /\ ~ IsNone(ret[1].N_value)) =>
                /\ ~ ret[1].N1_60[i].raised
                /\ ~ IsNone(ret[1].N1_60[i].N1_60)

\* the Mw the table holds for a city, in either writing of its name
TableMw(addr_city) ==
    IF addr_city \in {"Taipei", "Taipei_variant", "NewTaipei"} THEN Some(Lin(Scale, 73, 10))
    ELSE IF addr_city \in {"Taichung", "Taichung_variant"} THEN Some(Lin(Scale, 71, 10))
    ELSE IF addr_city = "Hsinchu" THEN Some(Lin(Scale, 69, 10))
    ELSE Nothing

\* C27: a place geocoded to a city of the city-to-Mw table gets the table's
\* Mw as its base_mw, and a place gets 7.0 only when its city is not in the
\* table
C27_BaseMwFromTable ==
    ret # Nothing =>
        IF IsNone(TableMw(arg[1].addr_city))
        THEN ret[1].base_mw = 7 * Scale
        ELSE ret[1].base_mw = TableMw(arg[1].addr_city)[1]

\* C28: a resolved query has the site class of the band of its Vs30,
\* whichever step gave the parameters: A from 760 m/s, B from 360, C from
\* 180, D from 120, E below
C28_SiteClassOfVs30 ==
    ret # Nothing =>
        ret[1].site_class =
            Some(IF ret[1].vs30 >= 760 * Scale THEN "A"
                 ELSE IF ret[1].vs30 >= 360 * Scale THEN "B"
                 ELSE IF ret[1].vs30 >= 180 * Scale THEN "C"
                 ELSE IF ret[1].vs30 >= 120 * Scale THEN "D"
                 ELSE "E")
====
